---- MODULE Spec2Model ----
(***************************************************************************)
(* Model of ollama_local_serve: the process supervisor OllamaService       *)
(* (service.py) together with the operating-system processes it spawns     *)
(* and signals, and the health probe it runs during start.                 *)
(*                                                                         *)
(* A call of start or stop is a sequence of steps, one per point where     *)
(* the call suspends (await) or blocks on the operating system; the code   *)
(* between two such points runs as one step.  The supervised process       *)
(* runs concurrently with the supervisor: it may exit at any time, and an  *)
(* exited process may be reaped from outside the supervisor ("process      *)
(* already gone"), after which getpgid/killpg on it fail.                  *)
(***************************************************************************)
EXTENDS Naturals, Integers, Sequences, FiniteSets, TLC

\* ---------------------------------------------------------------- bounds
MaxSpawns == 2          \* at most this many processes are ever spawned
MaxRetriesBound == 2    \* config.max_retries ranges over 0..MaxRetriesBound

Callers == {"a", "b"}   \* the coroutines that call start and stop
Owner == "a"            \* the caller when calls are serialized
Pids == 1 .. MaxSpawns
None == 0               \* self._process is None

\* what one GET /api/tags of the health probe can end in
Responses == {"200", "non200", "ClientError", "Other"}
\* what Popen can end in
SpawnOutcomes == {"ok", "FileNotFoundError", "OSError"}

VARIABLES
    os_name,        \* os.name: "posix" or "nt"
    max_retries,    \* self.config.max_retries
    _process,       \* self._process: None or the pid of the Popen object
    _is_running,    \* self._is_running
    proc,           \* operating-system state of every process spawned
    pc,             \* where each caller's current call is suspended
    op,             \* the call each caller is in, or made last
    result,         \* how each caller's last call ended
    attempt,        \* health_check: the loop index of the current attempt
    sleeps,         \* health_check: backoff sleeps taken in the current call
    probe,          \* health_check: how the current call's probe ended
    sigs,           \* the signals sent to every process, in order:
                    \* <<signal, scope, the operation that sent it>>
    timedOut,       \* stop: the graceful wait raised TimeoutExpired
    failed,         \* the last start that got past its guard raised
    ev,             \* the step taken last: who took it and what it was
    scope,          \* async with: where the scoped use of the service is
    bodyRaised,     \* async with: the body of the last scope raised
    workers,        \* per process: the worker it forked into its group
    hc,             \* the health_check call made directly by a client
    gm,             \* the get_models call made by a client
    config,         \* the last NetworkConfig(...) call: arguments, outcome
    seen,           \* the config the supervisor and the prober read last
    db,             \* the DatabaseManager: its mode, handles and flag
    answered,       \* the query the manager answered last
    clock,          \* datetime.utcnow(), in seconds
    closed,         \* what the last disconnect did to each backend
    ollama_metrics, \* the rows of table ollama_metrics
    hist,           \* the answer of get_history the caller holds
    request_logs,   \* the rows of table request_logs
    logs,           \* the call of get_logs: arguments, position, answer
    model_stats,    \* the answer of get_model_stats the caller holds
    app,            \* the application: its phase, _db_manager, /api/health
    calls,          \* the concurrent calls of health_check and of queries
    managers,       \* every DatabaseManager the module functions created
    _db_manager     \* the global _db_manager: None or one of managers

\* the variables of the supervisor and of the processes it spawns
supVars == <<os_name, max_retries, _process, _is_running, proc, pc, op, result,
             attempt, sleeps, probe, sigs, timedOut, failed, ev>>

\* the variables of a scoped use of the supervisor
scopeVars == <<scope, bodyRaised>>

\* the other processes of the process groups led by the spawned processes
groupVars == <<workers>>

\* the network calls a client makes on the service object
clientVars == <<hc, gm>>

\* the construction of a NetworkConfig and its readers
configVars == <<config, seen>>

\* the router of the queries and what it answered
routerVars == <<db, answered, clock, closed>>

\* the stored rows and the answers computed from them
dataVars ==
    <<ollama_metrics, hist, request_logs, logs, model_stats>>

\* the application around the router, and its concurrent callers
appVars == <<app, calls>>

\* the global manager of module dependencies and the managers it was
\* bound to
globalVars == <<managers, _db_manager>>

vars ==
    <<supVars, scopeVars, groupVars, clientVars, configVars, routerVars,
      dataVars, appVars, globalVars>>

\* what a run that only calls start and stop leaves alone
notSup ==
    <<scopeVars, groupVars, clientVars, configVars, routerVars,
      dataVars, appVars, globalVars>>
\* what a scoped use leaves alone
notScope ==
    <<groupVars, clientVars, configVars, routerVars,
      dataVars, appVars, globalVars>>
\* what the processes of a group leave alone
notGroup ==
    <<scopeVars, clientVars, configVars, routerVars,
      dataVars, appVars, globalVars>>
\* what the network calls of a client leave alone
notClient ==
    <<supVars, scopeVars, groupVars, configVars, routerVars,
      dataVars, appVars, globalVars>>
\* what the router leaves alone
notRouter ==
    <<supVars, scopeVars, groupVars, clientVars, configVars, dataVars,
      appVars, globalVars>>
\* what the queries over the stored rows leave alone
notData ==
    <<supVars, scopeVars, groupVars, clientVars, configVars, db, answered,
      closed,
      appVars, globalVars>>
\* what the application leaves alone besides the router
notApp ==
    <<supVars, scopeVars, groupVars, clientVars, configVars, dataVars,
      globalVars>>
\* what the construction of a config leaves alone
notConfig ==
    <<supVars, scopeVars, groupVars, clientVars, routerVars,
      dataVars, appVars, globalVars>>
\* what the module functions around the global manager leave alone
notGlobal ==
    <<supVars, scopeVars, groupVars, clientVars, configVars, routerVars,
      dataVars, appVars>>

\* a Python number: its type and its value (a float here is one with an
\* integral value, such as 30.0)
PyInt(n) == [ty |-> "int", val |-> n]
PyFloat(n) == [ty |-> "float", val |-> n]

\* config.py:22-25  the defaults of the fields
DefaultPort == 11434
DefaultTimeout == 30
DefaultMaxRetries == 3

\* dependencies.py:41  os.getenv("EXPORTER_TYPE", "clickhouse")
DefaultExporterType == "clickhouse"

\* dependencies.py:62-75  DatabaseManager.__init__: no handle (FALSE is
\* None, TRUE is a client, engine or factory object), not connected
NewManager(t, now) ==
    [exporter_type |-> t, _clickhouse_client |-> FALSE,
     _postgres_engine |-> FALSE, _postgres_session_factory |-> FALSE,
     _connected |-> FALSE, _start_time |-> now]

\* the caller holds no answer of get_history
NoHistory ==
    [time_range |-> "none", granularity |-> "none", adapter |-> "none",
     data |-> << >>]

\* no call of get_logs is under way and the caller holds no answer;
\* counted is the number of rows stored when the count statement ran
NoLogs ==
    [pc |-> "none", limit |-> 0, offset |-> 0, status |-> "None",
     model |-> "None", counted |-> 0, total |-> 0, logs |-> << >>]

\* the caller holds no answer of get_model_stats
NoModelStats == [held |-> FALSE, data |-> << >>]

\* server.py:46-50, dependencies.py:636  the application before its
\* lifespan starts: _db_manager is None, /api/health has not been asked
NoApp ==
    [phase |-> "init", _db_manager |-> FALSE, startup |-> "none",
     health |-> "none"]

\* a caller with no call under way
NoCallOf ==
    [op |-> "none", pc |-> "idle", retries |-> << >>, attempt |-> 0,
     adapter |-> "none", answers |-> << >>, outcome |-> "none"]

\* disconnect has not been called: for each backend "none" (no handle
\* was held), "closed" or "Exception" (closing it raised)
NoDisconnect ==
    [called |-> FALSE, clickhouse |-> "none", postgres |-> "none",
     raised |-> FALSE]

\* no query has been answered
NoQuery ==
    [name |-> "none", invoked |-> << >>, failed |-> FALSE,
     result |-> "none", raised |-> "none", value |-> "none"]

\* service.py:179-196  no health_check has been called: the locals of a
\* call, the requests it made and what it ended with
NoCall ==
    [pc |-> "idle", retries |-> << >>, max_retries |-> 0, attempt |-> 0,
     answers |-> << >>, sleeps |-> 0, outcome |-> "none", message |-> 0]

StartPcs == {"delay", "probe", "backoff"}
StopPcs == {"term_wait", "kill", "kill_wait"}

TypeOK ==
    /\ os_name \in {"posix", "nt"}
    /\ max_retries \in 0 .. MaxRetriesBound
    /\ _process \in {None} \cup Pids
    /\ _is_running \in BOOLEAN
    /\ proc \in [Pids -> {"unspawned", "alive", "killed", "exited", "gone"}]
    /\ pc \in [Callers -> {"idle"} \cup StartPcs \cup StopPcs]
    /\ op \in [Callers -> {"none", "start", "stop"}]
    /\ result \in [Callers -> {"none", "pending", "returned",
                               "ServiceStartError", "ServiceStopError",
                               "CancelledError"}]
    /\ attempt \in [Callers -> 0 .. MaxRetriesBound + 1]
    /\ sleeps \in [Callers -> 0 .. MaxRetriesBound + 1]
    /\ probe \in [Callers -> {"none", "True", "HealthCheckError", "ConnectionError"}]
    /\ timedOut \in [Callers -> BOOLEAN]
    /\ failed \in BOOLEAN
    /\ scope \in {"none", "entering", "body", "exiting", "left"}
    /\ bodyRaised \in BOOLEAN
    /\ workers \in [Pids -> {"none", "alive", "termed", "killed", "exited"}]
    /\ hc.pc \in {"idle", "request", "backoff", "done"}
    /\ hc.outcome \in {"none", "True", "ConnectionError", "HealthCheckError"}
    /\ hc.attempt \in 0 .. hc.max_retries
    /\ gm.pc \in {"idle", "request", "done"}

\* ------------------------------------------------------------------ Init
\* OllamaService.__init__: no process, not running.
Init ==
    /\ os_name \in {"posix", "nt"}
    /\ max_retries \in 0 .. MaxRetriesBound
    /\ _process = None
    /\ _is_running = FALSE
    /\ proc = [p \in Pids |-> "unspawned"]
    /\ pc = [c \in Callers |-> "idle"]
    /\ op = [c \in Callers |-> "none"]
    /\ result = [c \in Callers |-> "none"]
    /\ attempt = [c \in Callers |-> 0]
    /\ sleeps = [c \in Callers |-> 0]
    /\ probe = [c \in Callers |-> "none"]
    /\ sigs = [p \in Pids |-> << >>]
    /\ timedOut = [c \in Callers |-> FALSE]
    /\ failed = FALSE
    /\ ev = [by |-> "none", act |-> "init"]
    /\ scope = "none"
    /\ bodyRaised = FALSE
    /\ workers = [p \in Pids |-> "none"]
    /\ hc = NoCall
    /\ gm = [pc |-> "idle", requests |-> 0, answer |-> "none",
             outcome |-> "none"]
    /\ config = [outcome |-> "none", port |-> PyInt(DefaultPort),
                 timeout |-> PyInt(DefaultTimeout),
                 max_retries |-> PyInt(DefaultMaxRetries)]
    /\ seen = {}
    /\ clock = 0
    /\ db = NewManager(DefaultExporterType, 0)
    /\ answered = NoQuery
    /\ closed = NoDisconnect
    /\ ollama_metrics = {}
    /\ hist = NoHistory
    /\ request_logs = {}
    /\ logs = NoLogs
    /\ model_stats = NoModelStats
    /\ app = NoApp
    /\ calls = [c \in Callers |-> NoCallOf]
    /\ managers = << >>
    /\ _db_manager = None

\* --------------------------------------------------- the supervisor state
\* The code keeps no state field; the five states of the data model are
\* read off the running flag and the position of the call in progress.
State ==
    IF \E c \in Callers : pc[c] \in StopPcs THEN "Stopping"
    ELSE IF \E c \in Callers : pc[c] \in StartPcs THEN "Starting"
    ELSE IF _is_running THEN "Running"
    ELSE IF failed THEN "Failed"
    ELSE "Stopped"

\* --------------------------------------------------- operating system
\* Popen.poll(): not None once the process has exited.
Exited(p) == proc[p] \in {"exited", "gone"}

\* os.getpgid(pid) / os.killpg(pgid, sig) raise ProcessLookupError for a
\* process that no longer exists; Popen.terminate()/kill() do not raise.
SignalRaises(p) == os_name = "posix" /\ proc[p] = "gone"

\* A delivered SIGKILL: a live process is now dying.
AfterSIGKILL(st) == IF st = "alive" THEN "killed" ELSE st

\* Popen.kill(): polls first (reaping a process that has exited), sends
\* SIGKILL to the process otherwise.
AfterPopenKill(st) ==
    IF st \in {"exited", "gone"} THEN "gone" ELSE AfterSIGKILL(st)

\* The scope stop addresses its signals to.
StopScope == IF os_name # "nt" THEN "group" ELSE "process"

NextPid == CHOOSE p \in Pids : proc[p] = "unspawned" /\
                \A q \in Pids : q < p => proc[q] # "unspawned"

\* --------------------------------------------------- calls and callers
\* stop never awaits: while a stop is blocked in wait() the event loop
\* runs no other coroutine.
LoopFree(c) == \A d \in Callers \ {c} : pc[d] \notin StopPcs

\* the steps of a call happen one call at a time
Serialized == \A d \in Callers : pc[d] = "idle"

Event(c, a) == ev' = [by |-> c, act |-> a]

\* the call of c ends with r (returned, or the error raised)
Ends(c, r) ==
    /\ pc' = [pc EXCEPT ![c] = "idle"]
    /\ result' = [result EXCEPT ![c] = r]

\* exceptions.py: the four error kinds are distinct classes, none a
\* subclass of another
IsInstance(e, cls) == e = cls

\* ------------------------------------------------------------- start
\* mutant: the guard of start is missing
StartNeverNoop == FALSE

\* service.py:78  if self._is_running: return
StartIsNoop == _is_running

\* mutant: no probe error is absorbed
ProbeAbsorbedNever(e) == FALSE

\* service.py:115  except HealthCheckError: a probe error of this kind is
\* logged and start goes on to mark the service running
ProbeAbsorbed(e) == IsInstance(e, "HealthCheckError")

\* mutant: the cleanup does not kill the process
CleanupNoKill(st) == st

\* service.py:130  self._process.kill()
CleanupKill(st) == AfterPopenKill(st)

\* mutant: the cleanup keeps the handle
CleanupKeepHandle(h) == h

\* service.py:133  self._process = None
CleanupHandle(h) == None

\* service.py:125-134  except Exception: kill the process held, drop the
\* handle, raise ServiceStartError
StartCleanup(c) ==
    /\ IF _process # None
         THEN /\ proc' = [proc EXCEPT ![_process] = CleanupKill(@)]
              /\ sigs' = [sigs EXCEPT ![_process] =
                            IF CleanupKill(proc[_process]) = "killed"
                              THEN Append(@, <<"SIGKILL", "process", "start">>)
                              ELSE @]
         ELSE UNCHANGED <<proc, sigs>>
    /\ _process' = CleanupHandle(_process)
    /\ failed' = TRUE
    /\ Ends(c, "ServiceStartError")

\* service.py:67-101  start up to the startup delay: the guard, Popen
StartCall(c) ==
    /\ pc[c] = "idle" /\ LoopFree(c)
    /\ Event(c, "start")
    /\ op' = [op EXCEPT ![c] = "start"]
    /\ attempt' = [attempt EXCEPT ![c] = 0]
    /\ sleeps' = [sleeps EXCEPT ![c] = 0]
    /\ probe' = [probe EXCEPT ![c] = "none"]
    /\ timedOut' = [timedOut EXCEPT ![c] = FALSE]
    /\ UNCHANGED <<os_name, max_retries, _is_running>>
    /\ IF StartIsNoop
         THEN /\ Ends(c, "returned")
              /\ UNCHANGED <<_process, proc, sigs, failed>>
         ELSE /\ \E p \in Pids : proc[p] = "unspawned"
              /\ \E o \in SpawnOutcomes :
                   CASE o = "ok" ->
                          /\ _process' = NextPid
                          /\ proc' = [proc EXCEPT ![NextPid] = "alive"]
                          /\ pc' = [pc EXCEPT ![c] = "delay"]
                          /\ result' = [result EXCEPT ![c] = "pending"]
                          /\ UNCHANGED sigs
                          /\ failed' = FALSE
                     [] o = "FileNotFoundError" ->
                          \* service.py:120-124: raised without cleanup
                          /\ Ends(c, "ServiceStartError")
                          /\ failed' = TRUE
                          /\ UNCHANGED <<_process, proc, sigs>>
                     [] o = "OSError" ->
                          \* service.py:125-134: any other exception
                          StartCleanup(c)

\* service.py:101-112  the startup delay is over: poll the process; if it
\* has exited raise (and clean up), otherwise enter health_check
StartDelayDone(c) ==
    /\ pc[c] = "delay" /\ LoopFree(c)
    /\ Event(c, "delay_done")
    /\ UNCHANGED <<os_name, max_retries, _is_running, op, attempt, sleeps,
                   probe, timedOut>>
    /\ IF _process = None
         THEN StartCleanup(c)          \* None has no poll(): AttributeError
         ELSE IF Exited(_process)
           THEN StartCleanup(c)        \* "terminated immediately"
           ELSE /\ pc' = [pc EXCEPT ![c] = "probe"]
                /\ UNCHANGED <<_process, proc, sigs, result, failed>>

\* service.py:111-134  health_check has ended with o inside start
StartAfterProbe(c, o) ==
    /\ probe' = [probe EXCEPT ![c] = o]
    /\ IF o = "True" \/ ProbeAbsorbed(o)
         THEN /\ _is_running' = TRUE
              /\ Ends(c, "returned")
              /\ UNCHANGED <<_process, proc, sigs, failed>>
         ELSE /\ UNCHANGED _is_running
              /\ StartCleanup(c)

\* service.py:196-222  one attempt of health_check gets its answer r
ProbeAnswer(c) ==
    /\ pc[c] = "probe" /\ LoopFree(c)
    /\ Event(c, "probe_answer")
    /\ UNCHANGED <<os_name, max_retries, op, timedOut>>
    /\ \E r \in Responses :
         CASE r = "200" ->
                /\ StartAfterProbe(c, "True")
                /\ UNCHANGED <<attempt, sleeps>>
           [] r = "non200" ->
                \* logged; the loop goes on without sleeping
                IF attempt[c] < max_retries
                  THEN /\ attempt' = [attempt EXCEPT ![c] = @ + 1]
                       /\ UNCHANGED <<_process, _is_running, proc, pc, result,
                                      sleeps, probe, sigs, failed>>
                  ELSE /\ StartAfterProbe(c, "HealthCheckError")
                       /\ UNCHANGED <<attempt, sleeps>>
           [] r = "ClientError" ->
                IF attempt[c] < max_retries
                  THEN /\ pc' = [pc EXCEPT ![c] = "backoff"]
                       /\ UNCHANGED <<_process, _is_running, proc, result,
                                      attempt, sleeps, probe, sigs, failed>>
                  ELSE /\ StartAfterProbe(c, "ConnectionError")
                       /\ UNCHANGED <<attempt, sleeps>>
           [] r = "Other" ->
                /\ StartAfterProbe(c, "HealthCheckError")
                /\ UNCHANGED <<attempt, sleeps>>

\* service.py:211  await asyncio.sleep(1), then the next attempt
ProbeBackoffDone(c) ==
    /\ pc[c] = "backoff" /\ LoopFree(c)
    /\ Event(c, "backoff_done")
    /\ pc' = [pc EXCEPT ![c] = "probe"]
    /\ attempt' = [attempt EXCEPT ![c] = @ + 1]
    /\ sleeps' = [sleeps EXCEPT ![c] = @ + 1]
    /\ UNCHANGED <<os_name, max_retries, _process, _is_running, proc, op,
                   result, probe, sigs, timedOut, failed>>

\* -------------------------------------------------------------- stop
\* mutant: the guard of stop is missing
StopNeverNoop == FALSE

\* service.py:146  if not self._is_running or not self._process: return
StopIsNoop == ~_is_running \/ _process = None

\* service.py:171  self._is_running = False
StopRunning(r) == FALSE

\* service.py:172  self._process = None
StopHandle(h) == None

\* service.py:175-177  except Exception: raise ServiceStopError; nothing
\* else is assigned
StopFailsClearsFlag(c) ==
    /\ Ends(c, "ServiceStopError")
    /\ _is_running' = FALSE
    /\ UNCHANGED <<_process, proc, sigs, failed>>
StopFails(c) ==
    /\ Ends(c, "ServiceStopError")
    /\ UNCHANGED <<_process, _is_running, proc, sigs, failed>>

\* service.py:171-173  the process has exited and wait() has reaped it
StopSucceeds(c) ==
    /\ proc' = [proc EXCEPT ![_process] = "gone"]
    /\ _is_running' = StopRunning(_is_running)
    /\ _process' = StopHandle(_process)
    /\ failed' = FALSE
    /\ Ends(c, "returned")
    /\ UNCHANGED sigs

\* service.py:153-157 and 165-168: send sig to the process group (POSIX)
\* or to the process (nt, where terminate() and kill() both end it)
Signal(p, sig) ==
    /\ sigs' = [sigs EXCEPT ![p] = Append(@, <<sig, StopScope, "stop">>)]
    /\ proc' = [proc EXCEPT ![p] =
                  IF sig = "SIGKILL" \/ os_name = "nt"
                    THEN AfterSIGKILL(@) ELSE @]

\* service.py:136-157  stop up to the graceful wait: the guard, SIGTERM
StopCall(c) ==
    /\ pc[c] = "idle" /\ LoopFree(c)
    /\ Event(c, "stop")
    /\ op' = [op EXCEPT ![c] = "stop"]
    /\ timedOut' = [timedOut EXCEPT ![c] = FALSE]
    /\ UNCHANGED <<os_name, max_retries, attempt, sleeps, probe>>
    /\ IF StopIsNoop
         THEN /\ Ends(c, "returned")
              /\ UNCHANGED <<_process, _is_running, proc, sigs, failed>>
         ELSE IF _process = None \/ SignalRaises(_process)
           THEN StopFails(c)
           ELSE /\ Signal(_process, "SIGTERM")
                /\ pc' = [pc EXCEPT ![c] = "term_wait"]
                /\ result' = [result EXCEPT ![c] = "pending"]
                /\ UNCHANGED <<_process, _is_running, failed>>

\* service.py:159-163  self._process.wait(timeout=timeout) is over: the
\* process has exited, or TimeoutExpired
StopWaitDone(c) ==
    /\ pc[c] = "term_wait"
    /\ Event(c, "wait_done")
    /\ UNCHANGED <<os_name, max_retries, op, attempt, sleeps, probe>>
    /\ IF Exited(_process)
         THEN /\ StopSucceeds(c)
              /\ UNCHANGED timedOut
         ELSE /\ timedOut' = [timedOut EXCEPT ![c] = TRUE]
              /\ pc' = [pc EXCEPT ![c] = "kill"]
              /\ UNCHANGED <<_process, _is_running, proc, sigs, result, failed>>

\* service.py:164-168  after the timeout: SIGKILL
StopKill(c) ==
    /\ pc[c] = "kill"
    /\ Event(c, "kill")
    /\ UNCHANGED <<os_name, max_retries, op, attempt, sleeps, probe, timedOut>>
    /\ IF SignalRaises(_process)
         THEN StopFails(c)
         ELSE /\ Signal(_process, "SIGKILL")
              /\ pc' = [pc EXCEPT ![c] = "kill_wait"]
              /\ UNCHANGED <<_process, _is_running, result, failed>>

\* service.py:169-173  self._process.wait() returns once the process has
\* exited
StopKillWaitDone(c) ==
    /\ pc[c] = "kill_wait"
    /\ Exited(_process)
    /\ Event(c, "kill_wait_done")
    /\ StopSucceeds(c)
    /\ UNCHANGED <<os_name, max_retries, op, attempt, sleeps, probe, timedOut>>

\* ------------------------------------------------ the supervised process
\* the process exits: on its own, on SIGTERM, or because it was killed
ProcExit(p) ==
    /\ proc[p] \in {"alive", "killed"}
    /\ proc' = [proc EXCEPT ![p] = "exited"]
    /\ ev' = [by |-> "os", act |-> "exit"]
    /\ UNCHANGED <<os_name, max_retries, _process, _is_running, pc, op, result,
                   attempt, sleeps, probe, sigs, timedOut, failed>>

\* an exited process is reaped from outside the supervisor: it is gone
\* (of interest only for the process the supervisor still holds)
ProcReaped(p) ==
    /\ proc[p] = "exited" /\ p = _process
    /\ proc' = [proc EXCEPT ![p] = "gone"]
    /\ ev' = [by |-> "os", act |-> "reaped"]
    /\ UNCHANGED <<os_name, max_retries, _process, _is_running, pc, op, result,
                   attempt, sleeps, probe, sigs, timedOut, failed>>

\* ------------------------------------------------------ specifications
Resume(c) ==
    \/ StartDelayDone(c)
    \/ ProbeAnswer(c)
    \/ ProbeBackoffDone(c)
    \/ StopWaitDone(c)
    \/ StopKill(c)
    \/ StopKillWaitDone(c)

Environment == \E p \in Pids : ProcExit(p) \/ ProcReaped(p)

\* start and stop are called one at a time, by a single flow of control
\* (spec.md section 5)
Next ==
    \/ Serialized /\ StartCall(Owner) /\ UNCHANGED notSup
    \/ Serialized /\ StopCall(Owner) /\ UNCHANGED notSup
    \/ Resume(Owner) /\ UNCHANGED notSup
    \/ Environment /\ UNCHANGED notSup

Spec == Init /\ [][Next]_vars

\* service.py:101, 111, 125  the task running start is cancelled while it
\* is suspended in the startup delay or in health_check: CancelledError is
\* raised at the await; it is a BaseException, so neither the handlers of
\* health_check nor except Exception of start catch it and no cleanup runs
CancelStart(c) ==
    /\ pc[c] \in StartPcs /\ LoopFree(c)
    /\ Event(c, "cancel")
    /\ Ends(c, "CancelledError")
    /\ UNCHANGED <<os_name, max_retries, _process, _is_running, proc, op,
                   attempt, sleeps, probe, sigs, timedOut, failed>>

\* serialized calls, any of which may be cancelled while suspended
NextCancel ==
    \/ Next
    \/ CancelStart(Owner) /\ UNCHANGED notSup

SpecCancel == Init /\ [][NextCancel]_vars

\* a call may arrive while another caller's start is suspended
NextConc ==
    \/ \E c \in Callers : StartCall(c) /\ UNCHANGED notSup
    \/ \E c \in Callers : StopCall(c) /\ UNCHANGED notSup
    \/ \E c \in Callers : Resume(c) /\ UNCHANGED notSup
    \/ Environment /\ UNCHANGED notSup

SpecConc == Init /\ [][NextConc]_vars

\* ------------------------------------------------ scoped use (async with)
\* where the scope is once the step of __aenter__ has been taken: start
\* is suspended, or it returned (the body runs), or it raised (the scope
\* is left without __aexit__)
AfterEnterStep ==
    IF pc'[Owner] # "idle" THEN "entering"
    ELSE IF result'[Owner] = "returned" THEN "body" ELSE "left"

\* service.py:259-262  __aenter__: await self.start()
ScopeEnter ==
    /\ scope \in {"none", "left"} /\ Serialized
    /\ StartCall(Owner)
    /\ scope' = AfterEnterStep
    /\ bodyRaised' = FALSE
    /\ UNCHANGED notScope

ScopeEnterResume ==
    /\ scope = "entering"
    /\ StartDelayDone(Owner) \/ ProbeAnswer(Owner) \/ ProbeBackoffDone(Owner)
    /\ scope' = AfterEnterStep
    /\ UNCHANGED <<bodyRaised, notScope>>

\* service.py:264-266  __aexit__: await self.stop(), whether the body
\* ended normally or raised
ScopeExit ==
    /\ scope = "body" /\ Serialized
    /\ bodyRaised' \in BOOLEAN
    /\ StopCall(Owner)
    /\ scope' = IF pc'[Owner] # "idle" THEN "exiting" ELSE "left"
    /\ UNCHANGED notScope

ScopeExitResume ==
    /\ scope = "exiting"
    /\ StopWaitDone(Owner) \/ StopKill(Owner) \/ StopKillWaitDone(Owner)
    /\ scope' = IF pc'[Owner] # "idle" THEN "exiting" ELSE "left"
    /\ UNCHANGED <<bodyRaised, notScope>>

\* the supervisor is used through async with only
NextScope ==
    \/ ScopeEnter
    \/ ScopeEnterResume
    \/ ScopeExit
    \/ ScopeExitResume
    \/ Environment /\ UNCHANGED notSup

SpecScope == Init /\ [][NextScope]_vars

\* ------------------------------------------- health_check, called directly
\* what one request of a client can end in: the answers of the probe of
\* start, and the expiry of ClientTimeout(total=config.timeout), which
\* aiohttp raises as asyncio.TimeoutError
Answers == Responses \cup {"Timeout"}

\* Optional[int]: << >> is None, <<n>> is n
RetriesArgs == {<< >>} \cup {<<n>> : n \in 0 .. MaxRetriesBound}

\* service.py:193  retries if retries is not None else config.max_retries
MaxRetriesOfConfig(retries) == max_retries
MaxRetriesOf(retries) ==
    IF retries # << >> THEN retries[1] ELSE max_retries

\* service.py:201  response.status == 200
StatusOKNever(r) == FALSE
StatusOK(r) == r = "200"

\* service.py:208  except aiohttp.ClientError; asyncio.TimeoutError is not
\* one
IsClientErrorNever(r) == FALSE
IsClientError(r) == r = "ClientError"

\* service.py:220-222  "Health check failed after {max_retries + 1}
\* attempts": the number of attempts the message names
ExhaustedMessageRetries(n) == n
ExhaustedMessage(n) == n + 1

\* service.py:196-222  one iteration of the loop, given what the request
\* ended in: where the call goes next, and what it ends with
AttemptOutcomeRetriesAll(r, att, n) ==
    IF StatusOK(r) THEN [pc |-> "done", outcome |-> "True", message |-> 0]
    ELSE IF att < n
      THEN [pc |-> "backoff", outcome |-> "none", message |-> 0]
    ELSE [pc |-> "done", outcome |-> "HealthCheckError",
          message |-> ExhaustedMessage(n)]
AttemptOutcome(r, att, n) ==
    CASE StatusOK(r) ->
           [pc |-> "done", outcome |-> "True", message |-> 0]
      [] ~StatusOK(r) /\ r \in {"200", "non200"} ->
           IF att < n
             THEN [pc |-> "request", outcome |-> "none", message |-> 0]
             ELSE [pc |-> "done", outcome |-> "HealthCheckError",
                   message |-> ExhaustedMessage(n)]
      [] r \notin {"200", "non200"} /\ IsClientError(r) ->
           IF att < n
             THEN [pc |-> "backoff", outcome |-> "none", message |-> 0]
             ELSE [pc |-> "done", outcome |-> "ConnectionError",
                   message |-> 0]
      [] OTHER ->
           [pc |-> "done", outcome |-> "HealthCheckError", message |-> 0]

\* service.py:179-196  health_check(retries): up to the first request
HealthCheckCall ==
    /\ hc.pc \in {"idle", "done"}
    /\ \E retries \in RetriesArgs :
          hc' = [NoCall EXCEPT !.pc = "request", !.retries = retries,
                               !.max_retries = MaxRetriesOf(retries)]
    /\ UNCHANGED <<notClient, gm>>

\* service.py:197-222  the request of this attempt ends
HealthCheckAnswer ==
    /\ hc.pc = "request"
    /\ \E r \in Answers :
          LET o == AttemptOutcome(r, hc.attempt, hc.max_retries) IN
          hc' = [hc EXCEPT !.answers = Append(@, r),
                           !.pc = o.pc,
                           !.outcome = o.outcome,
                           !.message = o.message,
                           !.attempt = IF o.pc = "request" THEN @ + 1 ELSE @]
    /\ UNCHANGED <<notClient, gm>>

\* service.py:210-211  await asyncio.sleep(1) is over: the next attempt
HealthCheckBackoffDone ==
    /\ hc.pc = "backoff"
    /\ hc' = [hc EXCEPT !.pc = "request", !.sleeps = @ + 1,
                        !.attempt = @ + 1]
    /\ UNCHANGED <<notClient, gm>>

\* ----------------------------------------------------------- get_models
\* service.py:239-247  what get_models ends with, given what its request
\* ended in: the parsed body, ConnectionError for a non-200 status and for
\* an aiohttp.ClientError; anything else is not caught and leaves
\* get_models as it is
ModelsOutcome(r) ==
    CASE r = "200" -> "body"
      [] r = "non200" -> "ConnectionError"
      [] r \notin {"200", "non200"} /\ IsClientError(r) -> "ConnectionError"
      [] r = "Timeout" -> "TimeoutError"
      [] OTHER -> "Exception"

\* service.py:224-239  get_models up to its request
GetModelsCall ==
    /\ gm.pc \in {"idle", "done"}
    /\ gm' = [pc |-> "request", requests |-> 1, answer |-> "none",
              outcome |-> "none"]
    /\ UNCHANGED <<notClient, hc>>

\* service.py:239-247  the request ends, and get_models with it
GetModelsAnswer ==
    /\ gm.pc = "request"
    /\ \E r \in Answers :
          gm' = [gm EXCEPT !.pc = "done", !.answer = r,
                           !.outcome = ModelsOutcome(r)]
    /\ UNCHANGED <<notClient, hc>>

\* a client that calls health_check and get_models again and again
NextProbe ==
    \/ HealthCheckCall
    \/ HealthCheckAnswer
    \/ HealthCheckBackoffDone
    \/ GetModelsCall
    \/ GetModelsAnswer

SpecProbe == Init /\ [][NextProbe]_vars

\* ---------------------------------------------------------- NetworkConfig
\* config.py:29  the range of a port
MinPort == 1
MaxPort == 65535

\* the arguments NetworkConfig is called with
Numbers(S) == {PyInt(n) : n \in S} \cup {PyFloat(n) : n \in S}
PortArgs ==
    Numbers({MinPort - 1, MinPort, DefaultPort, MaxPort, MaxPort + 1})
TimeoutArgs == Numbers({0 - 1, 0, DefaultTimeout})
MaxRetriesArgs == Numbers({0 - 1, 0, DefaultMaxRetries})

\* isinstance(x, int)
IsInt(x) == x.ty = "int"

\* config.py:29  isinstance(port, int) and 1 <= port <= 65535
PortOKNoUpper(x) == IsInt(x) /\ MinPort <= x.val
PortOK(x) == IsInt(x) /\ MinPort <= x.val /\ x.val <= MaxPort

\* config.py:31  isinstance(timeout, int) and not timeout <= 0
TimeoutOK(x) == IsInt(x) /\ ~(x.val <= 0)

\* config.py:33  isinstance(max_retries, int) and not max_retries < 0
MaxRetriesOK(x) == IsInt(x) /\ ~(x.val < 0)

\* config.py:27-34  __post_init__: the first check that fails raises
PostInit(port, timeout, retries) ==
    IF ~PortOK(port) THEN "ValueError: Port"
    ELSE IF ~TimeoutOK(timeout) THEN "ValueError: Timeout"
    ELSE IF ~MaxRetriesOK(retries) THEN "ValueError: Max retries"
    ELSE "constructed"

\* config.py:9-34  NetworkConfig(port=..., timeout=..., max_retries=...)
NewConfig ==
    /\ \E port \in PortArgs, timeout \in TimeoutArgs,
          retries \in MaxRetriesArgs :
          config' = [outcome |-> PostInit(port, timeout, retries),
                     port |-> port, timeout |-> timeout,
                     max_retries |-> retries]
    /\ UNCHANGED <<seen, notConfig>>

\* service.py:61, 89, 193-198  OllamaService(config) and its methods read
\* the fields of a config that was constructed
ReadConfig ==
    /\ config.outcome = "constructed"
    /\ seen' = {[port |-> config.port, timeout |-> config.timeout,
                  max_retries |-> config.max_retries]}
    /\ UNCHANGED <<config, notConfig>>

NextConfig ==
    \/ NewConfig
    \/ ReadConfig

SpecConfig == Init /\ [][NextConfig]_vars

\* -------------------------------------------------------- DatabaseManager
\* dependencies.py:41  EXPORTER_TYPE is taken from the environment as it
\* is: "csv" stands for any value that names no backend
ExporterTypes == {"clickhouse", "postgres", "both", "csv"}

\* the four queries of the router
Queries ==
    {"get_current_stats", "get_history", "get_logs", "get_model_stats"}

\* dependencies.py:95-146  how connecting to one backend ends: connected,
\* or raising before any handle is assigned (the driver cannot be
\* imported, the client cannot be built), or raising in the test query,
\* after the handles were assigned
ConnectOutcomes == {"ok", "raise_early", "raise_test"}

\* dependencies.py:62-75  DatabaseManager(config) with the mode of the
\* environment
DatabaseManagerInit ==
    /\ \E t \in ExporterTypes : db' = NewManager(t, clock)
    /\ UNCHANGED <<answered, clock, closed, notRouter>>

\* dependencies.py:77-146  connect: ClickHouse first, then Postgres, each
\* if the mode asks for it; the first failure ends connect
ConnectRaises(d, ch, pg) ==
    LET useCh == d.exporter_type \in {"clickhouse", "both"}
        usePg == d.exporter_type \in {"postgres", "both"}
    IN  \/ useCh /\ ch # "ok"
        \/ usePg /\ pg # "ok"

AfterConnect(d, ch, pg) ==
    LET useCh == d.exporter_type \in {"clickhouse", "both"}
        usePg == d.exporter_type \in {"postgres", "both"}
        chRaised == useCh /\ ch # "ok"
        tryPg == usePg /\ ~chRaised
        pgRaised == tryPg /\ pg # "ok"
    IN  [d EXCEPT
           !._clickhouse_client =
               IF useCh /\ ch # "raise_early" THEN TRUE ELSE @,
           !._postgres_engine =
               IF tryPg /\ pg # "raise_early" THEN TRUE ELSE @,
           !._postgres_session_factory =
               IF tryPg /\ pg # "raise_early" THEN TRUE ELSE @,
           !._connected =
               IF chRaised \/ pgRaised THEN @ ELSE TRUE]

Connect ==
    /\ \E ch \in ConnectOutcomes, pg \in ConnectOutcomes :
          db' = AfterConnect(db, ch, pg)
    /\ UNCHANGED <<answered, clock, closed, notRouter>>

\* dependencies.py:148-166  disconnect
CloseEnds == {"closed", "Exception"}

\* dependencies.py:151-154, 157-162  try: close; except Exception: log;
\* then the handle is set to None, whether closing raised or not
AfterCloseKept(h, e) == IF e = "Exception" THEN h ELSE FALSE
AfterClose(h, e) == FALSE

AfterDisconnect(d, ch, pg) ==
    [d EXCEPT !._clickhouse_client = IF @ THEN AfterClose(@, ch) ELSE @,
              !._postgres_engine = IF @ THEN AfterClose(@, pg) ELSE @,
              !._postgres_session_factory =
                  IF d._postgres_engine THEN AfterClose(@, pg) ELSE @,
              !._connected = FALSE]

Disconnect ==
    /\ \E ch \in CloseEnds, pg \in CloseEnds :
          /\ db' = AfterDisconnect(db, ch, pg)
          /\ closed' = [called |-> TRUE,
                        clickhouse |-> IF db._clickhouse_client THEN ch
                                       ELSE "none",
                        postgres |-> IF db._postgres_engine THEN pg
                                     ELSE "none",
                        raised |-> FALSE]
    /\ UNCHANGED <<answered, clock, notRouter>>

\* dependencies.py:184-189, 323-328, 427-432, 557-562  the adapter a
\* query goes to
DispatchPostgresFirst ==
    IF db._postgres_session_factory THEN "postgres"
    ELSE IF db.exporter_type \in {"clickhouse", "both"}
            /\ db._clickhouse_client THEN "clickhouse"
    ELSE "none"
Dispatch ==
    IF db.exporter_type \in {"clickhouse", "both"} /\ db._clickhouse_client
      THEN "clickhouse"
    ELSE IF db._postgres_session_factory THEN "postgres"
    ELSE "none"

\* dependencies.py:295  uptime_seconds / 3600
SecondsPerHour == 3600

\* dependencies.py:173-176  uptime_seconds: utcnow() - _start_time
UptimeSecondsSinceEpoch == clock
UptimeSeconds == clock - db._start_time

\* dependencies.py:290-301  _get_empty_stats; uptime_hours is the quotient
\* of the pair
GetEmptyStats ==
    [tokens_total |-> 0, tokens_per_sec |-> 0,
     uptime_hours |-> <<UptimeSeconds, SecondsPerHour>>,
     error_count |-> 0, request_count |-> 0, avg_latency_ms |-> 0,
     models_available |-> 0, timestamp |-> clock]

\* dependencies.py:189, 328, 432, 562  what each query returns when it has
\* no adapter to go to
EmptyResult(name) ==
    CASE name = "get_current_stats" -> GetEmptyStats
      [] name = "get_logs" -> [total |-> 0, logs |-> << >>]
      [] OTHER -> << >>

\* dependencies.py:238-240, 286-288, 364-366, 407-409, 488-490, 551-553,
\* 593-595, 630-632  except Exception as e: log it, return the empty
\* result
AdapterReraises(name, e) == [raised |-> e, value |-> "none"]
AdapterExcept(name, e) == [raised |-> "none", value |-> EmptyResult(name)]

\* what the body of an adapter ends in: the rows of its statements, or an
\* exception of the driver, the connection or the conversion of a row
AdapterEnds == {"rows", "Exception"}

\* dependencies.py:182-632  one query: the adapter chosen runs its
\* statements and returns rows, or raises inside its try and returns the
\* empty result; with no adapter the empty result is returned at once
Query(name) ==
    /\ \E e \in AdapterEnds :
          LET a == Dispatch
              raises == e # "rows"
              out == IF a = "none"
                       THEN [raised |-> "none", value |-> EmptyResult(name)]
                     ELSE IF raises THEN AdapterExcept(name, e)
                     ELSE [raised |-> "none", value |-> [rows |-> a]]
          IN
          answered' = [name |-> name,
                invoked |-> IF a = "none" THEN << >> ELSE <<a>>,
                failed |-> a # "none" /\ raises,
                result |-> IF a = "none" \/ raises THEN "empty" ELSE "rows",
                raised |-> out.raised,
                value |-> out.value]
    /\ UNCHANGED <<db, clock, closed, notRouter>>

\* the bound of the clock
MaxClock == 2

\* time passes
Tick ==
    /\ clock < MaxClock
    /\ clock' = clock + 1
    /\ UNCHANGED <<db, answered, closed, notRouter>>

\* a manager that is created, connected, queried and disconnected in any
\* order
NextRouter ==
    \/ DatabaseManagerInit
    \/ Connect
    \/ Disconnect
    \/ \E name \in Queries : Query(name)
    \/ Tick

SpecRouter == Init /\ [][NextRouter]_vars

\* the request log and the answers computed from it
logVars == <<request_logs, logs, model_stats>>

\* ------------------------------------------------------- the application
\* server.py:51-56, dependencies.py:645-650  the startup of lifespan:
\* init_database binds _db_manager to a new manager, then connects it; an
\* exception of connect is logged and the application goes on to serve
LifespanStartup ==
    /\ app.phase = "init"
    /\ \E t \in ExporterTypes, ch \in ConnectOutcomes,
          pg \in ConnectOutcomes :
          LET d == NewManager(t, clock) IN
          /\ db' = AfterConnect(d, ch, pg)
          /\ app' = [phase |-> "serving", _db_manager |-> TRUE,
                     startup |-> IF ConnectRaises(d, ch, pg) THEN "failed"
                                 ELSE "ok",
                     health |-> "none"]
    /\ UNCHANGED <<answered, clock, closed, calls, notApp>>

\* server.py:133-161  GET /api/health: healthy if the manager says it is
\* connected, degraded otherwise
HealthRoute ==
    /\ app.phase = "serving"
    /\ app' = [app EXCEPT !.health = IF db._connected THEN "healthy"
                                     ELSE "degraded"]
    /\ UNCHANGED <<routerVars, calls, notApp>>

\* server.py:174-326  the four query routes, once the application serves
QueryRoute(name) ==
    /\ app.phase = "serving"
    /\ Query(name)

\* server.py:59-62, dependencies.py:653-660  the shutdown of lifespan:
\* close_database disconnects the manager and unbinds it
LifespanShutdown ==
    /\ app.phase = "serving"
    /\ \E ch \in CloseEnds, pg \in CloseEnds :
          db' = AfterDisconnect(db, ch, pg)
    /\ app' = [app EXCEPT !.phase = "stopped", !._db_manager = FALSE]
    /\ UNCHANGED <<answered, clock, closed, calls, notApp>>

NextApp ==
    \/ LifespanStartup
    \/ HealthRoute
    \/ \E name \in Queries : QueryRoute(name)
    \/ LifespanShutdown
    \/ Tick

SpecApp == Init /\ [][NextApp]_vars

\* ----------------------------------------------------- the global manager
\* the managers the module functions may create in one run
MaxManagers == 3

\* dependencies.py:639-644  get_database_manager: a new manager, not
\* connected, if the global is None; the global is returned
GetDatabaseManager ==
    /\ IF _db_manager = None
       THEN /\ Len(managers) < MaxManagers
            /\ \E t \in ExporterTypes :
                  managers' = Append(managers, NewManager(t, clock))
            /\ _db_manager' = Len(managers) + 1
       ELSE UNCHANGED globalVars
    /\ UNCHANGED notGlobal

\* dependencies.py:647-652  init_database: the global is bound to a new
\* manager, whatever it was bound to, then the new manager connects; an
\* exception of connect leaves the global bound
InitDatabase ==
    /\ Len(managers) < MaxManagers
    /\ \E t \in ExporterTypes, ch \in ConnectOutcomes,
          pg \in ConnectOutcomes :
          managers' =
              Append(managers, AfterConnect(NewManager(t, clock), ch, pg))
    /\ _db_manager' = Len(managers) + 1
    /\ UNCHANGED notGlobal

\* dependencies.py:655-660  close_database: the global manager, if there
\* is one, disconnects and the global is None again
CloseDatabase ==
    /\ IF _db_manager = None
       THEN UNCHANGED globalVars
       ELSE /\ \E ch \in CloseEnds, pg \in CloseEnds :
                  managers' =
                      [managers EXCEPT
                         ![_db_manager] = AfterDisconnect(@, ch, pg)]
            /\ _db_manager' = None
    /\ UNCHANGED notGlobal

NextGlobal ==
    \/ GetDatabaseManager
    \/ InitDatabase
    \/ CloseDatabase

SpecGlobal == Init /\ [][NextGlobal]_vars

\* ------------------------------------------------------ concurrent calls
\* no call has been made yet
Quiet == \A c \in Callers : calls[c].pc = "idle"

\* the arguments the callers pass to health_check, and what their
\* requests end in
CallRetries == {<< >>, <<1>>}
CallAnswers == {"200", "non200", "ClientError", "Timeout"}

\* dependencies.py:62-146  the router is set up before the calls are made
SetUp ==
    /\ Quiet
    /\ \/ \E t \in ExporterTypes : db' = NewManager(t, clock)
       \/ \E ch \in ConnectOutcomes, pg \in ConnectOutcomes :
             db' = AfterConnect(db, ch, pg)
    /\ UNCHANGED <<answered, clock, closed, appVars, notApp>>

\* service.py:196  the attempt counter of the call of c, a local of the
\* coroutine
AttemptOfFirst(c) == calls["a"].attempt
AttemptOf(c) == calls[c].attempt

\* service.py:179-196  c calls health_check(retries): up to the first
\* request
CallHealthCheck(c) ==
    /\ calls[c].pc \in {"idle", "done"}
    /\ \E retries \in CallRetries :
          calls' = [calls EXCEPT ![c] =
              [NoCallOf EXCEPT !.op = "health_check", !.pc = "request",
                               !.retries = retries]]
    /\ UNCHANGED <<app, routerVars, notApp>>

\* service.py:197-222  the request of c's attempt ends
AnswerHealthCheck(c) ==
    /\ calls[c].op = "health_check"
    /\ calls[c].pc = "request"
    /\ \E r \in CallAnswers :
          LET o == AttemptOutcome(r, AttemptOf(c),
                                  MaxRetriesOf(calls[c].retries)) IN
          calls' = [calls EXCEPT ![c] =
              [@ EXCEPT !.answers = Append(@, r),
                        !.pc = o.pc,
                        !.outcome = o.outcome,
                        !.attempt = IF o.pc = "request" THEN AttemptOf(c) + 1
                                    ELSE AttemptOf(c)]]
    /\ UNCHANGED <<app, routerVars, notApp>>

\* service.py:210-211  c's await asyncio.sleep(1) is over
BackoffDone(c) ==
    /\ calls[c].op = "health_check"
    /\ calls[c].pc = "backoff"
    /\ calls' = [calls EXCEPT ![c] =
          [@ EXCEPT !.pc = "request", !.attempt = AttemptOf(c) + 1]]
    /\ UNCHANGED <<app, routerVars, notApp>>

\* dependencies.py:184-189, 323-328, 427-432, 557-562  c calls a query:
\* the dispatch; with no adapter the empty result is returned at once
CallQuery(c, name) ==
    /\ calls[c].pc \in {"idle", "done"}
    /\ calls' = [calls EXCEPT ![c] =
          [NoCallOf EXCEPT !.op = name,
                           !.adapter = Dispatch,
                           !.pc = IF Dispatch = "none" THEN "done"
                                  ELSE "request",
                           !.outcome = IF Dispatch = "none" THEN "empty"
                                       ELSE "none"]]
    /\ UNCHANGED <<app, routerVars, notApp>>

\* dependencies.py:191-632  the statements of c's adapter end: rows, or
\* an exception and the empty result
AnswerQuery(c) ==
    /\ calls[c].op \in Queries
    /\ calls[c].pc = "request"
    /\ \E e \in AdapterEnds :
          calls' = [calls EXCEPT ![c] =
              [@ EXCEPT !.answers = <<e>>,
                        !.pc = "done",
                        !.outcome = IF e = "rows" THEN "rows" ELSE "empty"]]
    /\ UNCHANGED <<app, routerVars, notApp>>

\* a step of a call of health_check or of a query
CallStep(c) ==
    \/ CallHealthCheck(c)
    \/ AnswerHealthCheck(c)
    \/ BackoffDone(c)
    \/ \E name \in Queries : CallQuery(c, name)
    \/ AnswerQuery(c)

NextCalls ==
    \/ SetUp
    \/ \E c \in Callers : CallStep(c)

SpecCalls == Init /\ [][NextCalls]_vars

\* ------------------------------------------- the supervisor and its probes
\* no direct call of health_check or get_models is under way or unread
ProbesIdle == calls[Owner].pc = "idle" /\ gm.pc = "idle"

\* the caller has read what its health_check or get_models ended with
ProbeReturn ==
    /\ calls[Owner].pc = "done" \/ gm.pc = "done"
    /\ calls' = [calls EXCEPT ![Owner] = NoCallOf]
    /\ gm' = [pc |-> "idle", requests |-> 0, answer |-> "none",
              outcome |-> "none"]
    /\ UNCHANGED <<supVars, scopeVars, groupVars, hc, configVars,
                   routerVars, dataVars, app, globalVars>>

\* start, stop, health_check and get_models called one at a time by a
\* single flow of control (spec.md section 5), start open to cancellation,
\* while the supervised process may exit at any time
NextRunning ==
    \/ ProbesIdle /\ NextCancel
    \/ Environment /\ UNCHANGED notSup
    \/ Serialized /\ ProbesIdle /\ CallHealthCheck(Owner)
    \/ AnswerHealthCheck(Owner)
    \/ BackoffDone(Owner)
    \/ Serialized /\ ProbesIdle /\ GetModelsCall
    \/ GetModelsAnswer
    \/ ProbeReturn

SpecRunning == Init /\ [][NextRunning]_vars

\* ------------------------------------------------------------ get_history
\* the bound on the number of stored rows
MaxRows == 3

\* the instants of a run, in seconds: two in one minute, a third in the
\* same five minutes, a fourth later in the same hour, the last in the
\* next hour and less than an hour after the fourth
Instants == {0, 30, 90, 2700, 4500}

\* the metric rows the exporter writes: a name and a value
MetricKinds ==
    { [metric_name |-> "ollama_tokens_generated_total", metric_value |-> 2],
      [metric_name |-> "ollama_request_latency_ms", metric_value |-> 1],
      [metric_name |-> "ollama_request_latency_ms", metric_value |-> 3],
      [metric_name |-> "ollama_requests_total", metric_value |-> 1],
      [metric_name |-> "ollama_errors_total", metric_value |-> 2] }

\* the arguments of get_history: the values of the route and one other
RangeArgs == {"1h", "6h", "24h", "7d"}
GranularityArgs == {"1m", "5m", "1h", "1s"}

\* dependencies.py:316-317  range_map.get(time_range, 1)
RangeHours(r) ==
    CASE r = "1h" -> 1 [] r = "6h" -> 6 [] r = "24h" -> 24 [] OTHER -> 1

\* dependencies.py:320-321  granularity_map.get(granularity, 1)
GranularityMinutes(g) ==
    CASE g = "1m" -> 1 [] g = "5m" -> 5 [] g = "1h" -> 60 [] OTHER -> 1

SecondsPerMinute == 60

\* dependencies.py:336  toStartOfInterval(timestamp, INTERVAL m MINUTE)
ToStartOfInterval(t, m) == t - (t % (m * SecondsPerMinute))

\* dependencies.py:378  date_trunc('minute', timestamp)
DateTruncMinute(t) == t - (t % SecondsPerMinute)

\* dependencies.py:346, 388  WHERE timestamp >= now() - INTERVAL h HOUR
Since(h) ==
    {r \in ollama_metrics : r.timestamp >= clock - h * SecondsPerHour}

\* SQL sum() of the values of a set of rows
RECURSIVE SumValues(_)
SumValues(rs) ==
    IF rs = {} THEN 0
    ELSE LET r == CHOOSE x \in rs : TRUE
         IN  r.metric_value + SumValues(rs \ {r})

Named(rs, name) == {r \in rs : r.metric_name = name}

\* SQL ORDER BY time_bucket DESC
RECURSIVE OrderDesc(_)
OrderDesc(ts) ==
    IF ts = {} THEN << >>
    ELSE LET m == CHOOSE x \in ts : \A y \in ts : y <= x
         IN  <<m>> \o OrderDesc(ts \ {m})

\* dependencies.py:337-344, 353-362 and 379-386, 395-404  the columns of
\* one bucket; a quotient is the pair of its terms, the average of no row
\* is NULL and becomes 0
Bucket(rs, t, m) ==
    LET lat == Named(rs, "ollama_request_latency_ms") IN
    [timestamp |-> t,
     tokens_total |-> SumValues(Named(rs, "ollama_tokens_generated_total")),
     latency_ms |-> IF lat = {} THEN <<0, 1>>
                    ELSE <<SumValues(lat), Cardinality(lat)>>,
     throughput |-> <<Cardinality(Named(rs, "ollama_requests_total")), m>>,
     error_count |-> SumValues(Named(rs, "ollama_errors_total"))]

\* dependencies.py:330-366  _get_history_clickhouse
GetHistoryClickhouse(h, m) ==
    LET rs == Since(h)
        ts == OrderDesc({ToStartOfInterval(r.timestamp, m) : r \in rs})
    IN  [i \in 1 .. Len(ts) |->
           Bucket({r \in rs : ToStartOfInterval(r.timestamp, m) = ts[i]},
                  ts[i], m)]

\* dependencies.py:368-409  _get_history_postgres
GetHistoryPostgres(h, m) ==
    LET rs == Since(h)
        ts == OrderDesc({DateTruncMinute(r.timestamp) : r \in rs})
    IN  [i \in 1 .. Len(ts) |->
           Bucket({r \in rs : DateTruncMinute(r.timestamp) = ts[i]},
                  ts[i], m)]

\* dependencies.py:303-328  get_history on a manager whose dispatch goes to
\* adapter a
GetHistoryBy(a, time_range, granularity) ==
    LET hours == RangeHours(time_range)
        minutes == GranularityMinutes(granularity)
    IN  IF a = "clickhouse" THEN GetHistoryClickhouse(hours, minutes)
        ELSE GetHistoryPostgres(hours, minutes)

\* the exporter writes a metric row, stamped with the time of writing
StoreMetric ==
    /\ hist = NoHistory
    /\ Cardinality(ollama_metrics) < MaxRows
    /\ \E k \in MetricKinds :
          ollama_metrics' = ollama_metrics \cup
              {[timestamp |-> clock, metric_name |-> k.metric_name,
                metric_value |-> k.metric_value]}
    /\ ollama_metrics' # ollama_metrics
    /\ UNCHANGED <<hist, clock, logVars, notData>>

\* time passes
Advance ==
    /\ hist = NoHistory
    /\ \E t \in Instants : t > clock /\ clock' = t
    /\ UNCHANGED <<dataVars, notData>>

\* dependencies.py:303-328  get_history(time_range, granularity)
GetHistory ==
    /\ hist = NoHistory
    /\ \E a \in {"clickhouse", "postgres"}, time_range \in RangeArgs,
          granularity \in GranularityArgs :
          hist' = [time_range |-> time_range, granularity |-> granularity,
                   adapter |-> a,
                   data |-> GetHistoryBy(a, time_range, granularity)]
    /\ UNCHANGED <<ollama_metrics, clock, logVars, notData>>

\* the caller drops the answer
DropHistory ==
    /\ hist # NoHistory
    /\ hist' = NoHistory
    /\ UNCHANGED <<ollama_metrics, clock, logVars, notData>>

NextHistory ==
    \/ StoreMetric
    \/ Advance
    \/ GetHistory
    \/ DropHistory

SpecHistory == Init /\ [][NextHistory]_vars

\* --------------------------------------------- get_logs, get_model_stats
\* the bound on the number of logged requests
MaxLogs == 3

\* the requests the exporter logs: model, status, tokens, latency
LogKinds ==
    { [model |-> "llama", status |-> "success", tokens_generated |-> 2,
       latency_ms |-> 7],
      [model |-> "llama", status |-> "error", tokens_generated |-> 1,
       latency_ms |-> 5],
      [model |-> "phi", status |-> "success", tokens_generated |-> 3,
       latency_ms |-> 7] }

\* the arguments of get_logs; "None" is Python's None, "" the empty string
LimitArgs == {1, 2}
OffsetArgs == {0, 1}
StatusArgs == {"None", "error"}
ModelArgs == {"", "llama"}

\* dependencies.py:446, 449, 504, 507  if status: / if model:
Truthy(x) == x # "None" /\ x # ""

\* dependencies.py:446-453, 504-511  the rows the WHERE clause keeps
Where(status, model) ==
    {r \in request_logs :
        /\ Truthy(status) => r.status = status
        /\ Truthy(model) => r.model = model}

\* dependencies.py:471-482, 532-543  the entry made of a row
LogEntry(r) ==
    [request_id |-> r.request_id, timestamp |-> r.timestamp,
     model |-> r.model, tokens |-> r.tokens_generated,
     latency |-> r.latency_ms, status |-> r.status]

\* dependencies.py:465, 524  ORDER BY timestamp DESC: the orders SQL may
\* list the rows of rs in
RECURSIVE OrderByTimestampDesc(_)
OrderByTimestampDesc(rs) ==
    IF rs = {} THEN {<< >>}
    ELSE UNION {{<<m>> \o o : o \in OrderByTimestampDesc(rs \ {m})} :
                  m \in {x \in rs :
                            \A y \in rs : y.timestamp <= x.timestamp}}

\* dependencies.py:466, 525  LIMIT limit OFFSET offset
LimitOffsetNoOffset(o, limit, offset) ==
    [i \in 1 .. (IF Len(o) < limit THEN Len(o) ELSE limit) |-> o[i]]
LimitOffset(o, limit, offset) ==
    LET n == IF Len(o) <= offset THEN 0
             ELSE IF Len(o) - offset < limit THEN Len(o) - offset
             ELSE limit
    IN  [i \in 1 .. n |-> o[i + offset]]

\* the time of the latest logged request
LastLogged ==
    IF request_logs = {} THEN 0
    ELSE LET r == CHOOSE x \in request_logs :
                      \A y \in request_logs : y.timestamp <= x.timestamp
         IN  r.timestamp

\* the exporter logs a request, stamped with the time of writing: the
\* second of the latest logged request or the next one
StoreLog ==
    /\ logs.pc # "done"
    /\ ~model_stats.held
    /\ Cardinality(request_logs) < MaxLogs
    /\ \E k \in LogKinds, t \in {LastLogged, LastLogged + 1} :
          request_logs' = request_logs \cup
              {[request_id |-> Cardinality(request_logs) + 1,
                timestamp |-> t, model |-> k.model, status |-> k.status,
                tokens_generated |-> k.tokens_generated,
                latency_ms |-> k.latency_ms]}
    /\ UNCHANGED <<logs, model_stats, ollama_metrics, hist, clock, notData>>

\* dependencies.py:443-457, 501-515  get_logs up to the count statement
GetLogsCount ==
    /\ logs.pc = "none"
    /\ ~model_stats.held
    /\ \E limit \in LimitArgs, offset \in OffsetArgs, status \in StatusArgs,
          model \in ModelArgs :
          logs' = [pc |-> "counted", limit |-> limit, offset |-> offset,
                   status |-> status, model |-> model,
                   counted |-> Cardinality(request_logs),
                   total |-> Cardinality(Where(status, model)),
                   logs |-> << >>]
    /\ UNCHANGED <<request_logs, model_stats, ollama_metrics, hist, clock,
                   notData>>

\* dependencies.py:459-484, 517-545  get_logs from the page statement on
GetLogsPage ==
    /\ logs.pc = "counted"
    /\ \E o \in OrderByTimestampDesc(Where(logs.status, logs.model)) :
          LET page == LimitOffset(o, logs.limit, logs.offset) IN
          logs' = [logs EXCEPT !.pc = "done",
                               !.logs = [i \in DOMAIN page |->
                                            LogEntry(page[i])]]
    /\ UNCHANGED <<request_logs, model_stats, ollama_metrics, hist, clock,
                   notData>>

\* the caller drops the answer
DropLogs ==
    /\ logs.pc = "done"
    /\ logs' = NoLogs
    /\ UNCHANGED <<request_logs, model_stats, ollama_metrics, hist, clock,
                   notData>>

\* dependencies.py:577, 611  GROUP BY model
OfModel(m) == {r \in request_logs : r.model = m}

RECURSIVE SumTokens(_)
SumTokens(rs) ==
    IF rs = {} THEN 0
    ELSE LET r == CHOOSE x \in rs : TRUE
         IN  r.tokens_generated + SumTokens(rs \ {r})

RECURSIVE SumLatency(_)
SumLatency(rs) ==
    IF rs = {} THEN 0
    ELSE LET r == CHOOSE x \in rs : TRUE
         IN  r.latency_ms + SumLatency(rs \ {r})

\* SQL max(timestamp)
MaxTimestamp(rs) ==
    LET r == CHOOSE x \in rs : \A y \in rs : y.timestamp <= x.timestamp
    IN  r.timestamp

\* dependencies.py:574, 608  sum(CASE WHEN status = 'error' THEN 1 ELSE 0 END)
ErrorsAll(rs) == Cardinality(rs)
Errors(rs) == Cardinality({r \in rs : r.status = "error"})

\* dependencies.py:568-593, 601-628  the row of one group
ModelRow(m) ==
    LET rs == OfModel(m) IN
    [model |-> m, requests_count |-> Cardinality(rs),
     tokens_generated |-> SumTokens(rs),
     avg_latency_ms |-> <<SumLatency(rs), Cardinality(rs)>>,
     error_count |-> Errors(rs), last_used |-> MaxTimestamp(rs)]

\* dependencies.py:578, 612  ORDER BY requests_count DESC: the orders SQL
\* may list the groups rs in
RECURSIVE OrderByRequestsDesc(_)
OrderByRequestsDesc(rs) ==
    IF rs = {} THEN {<< >>}
    ELSE UNION {{<<m>> \o o : o \in OrderByRequestsDesc(rs \ {m})} :
                  m \in {x \in rs : \A y \in rs :
                            y.requests_count <= x.requests_count}}

\* dependencies.py:555-632  get_model_stats
GetModelStats ==
    /\ logs.pc = "none"
    /\ ~model_stats.held
    /\ \E o \in OrderByRequestsDesc(
                   {ModelRow(r.model) : r \in request_logs}) :
          model_stats' = [held |-> TRUE, data |-> o]
    /\ UNCHANGED <<request_logs, logs, ollama_metrics, hist, clock, notData>>

\* the caller drops the answer
DropModelStats ==
    /\ model_stats.held
    /\ model_stats' = NoModelStats
    /\ UNCHANGED <<request_logs, logs, ollama_metrics, hist, clock, notData>>

NextLogs ==
    \/ StoreLog
    \/ GetLogsCount
    \/ GetLogsPage
    \/ DropLogs
    \/ GetModelStats
    \/ DropModelStats

SpecLogs == Init /\ [][NextLogs]_vars

\* ------------------------------------------------------ process groups
\* service.py:97  preexec_fn=os.setsid: on posix the spawned process leads
\* a process group of its own, and what it forks stays in that group.
\* The signal the step being taken sends to process p, if it sends one.
SentNow(p) ==
    IF Len(sigs'[p]) > Len(sigs[p]) THEN sigs'[p][Len(sigs'[p])]
    ELSE <<"none", "none", "none">>

\* What a signal does to the worker of the group: os.killpg (scope
\* "group", service.py:155, 166) reaches it, Popen.terminate and
\* Popen.kill (scope "process", service.py:130, 157, 168) do not.
\* SIGTERM may be handled or ignored, SIGKILL may not.
WorkerAfter(st, sig) ==
    IF sig[2] # "group" \/ st \notin {"alive", "termed"} THEN st
    ELSE IF sig[1] = "SIGKILL" THEN "killed" ELSE "termed"

\* the workers after a step of start or stop
Delivered ==
    workers' = [p \in Pids |-> WorkerAfter(workers[p], SentNow(p))]

\* the ollama process forks a worker (a model runner)
Fork(p) ==
    /\ proc[p] = "alive" /\ workers[p] = "none"
    /\ workers' = [workers EXCEPT ![p] = "alive"]
    /\ UNCHANGED <<supVars, notGroup>>

WorkerExit(p) ==
    /\ workers[p] \in {"alive", "termed", "killed"}
    /\ workers' = [workers EXCEPT ![p] = "exited"]
    /\ UNCHANGED <<supVars, notGroup>>

\* start and stop called one after the other on a supervisor whose
\* process may fork
NextGroup ==
    \/ Serialized /\ StartCall(Owner) /\ Delivered /\ UNCHANGED notGroup
    \/ Serialized /\ StopCall(Owner) /\ Delivered /\ UNCHANGED notGroup
    \/ Resume(Owner) /\ Delivered /\ UNCHANGED notGroup
    \/ Environment /\ UNCHANGED notSup
    \/ \E p \in Pids : Fork(p)
    \/ \E p \in Pids : WorkerExit(p)

SpecGroup == Init /\ [][NextGroup]_vars

\* ===================================================================
\* Properties
\* ===================================================================

\* the step just taken was taken by a call of operation o
StepOf(o) == ev.by \in Callers /\ op[ev.by] = o

\* the state right after a call of operation o has ended
JustEnded(o) == StepOf(o) /\ pc[ev.by] = "idle"

\* the signals with name sig that operation o has sent to process p
SentTo(p, sig, o) ==
    {i \in 1 .. Len(sigs[p]) : sigs[p][i][1] = sig /\ sigs[p][i][3] = o}

\* ------------------------------------------------------------------ C1
Moves ==
    { <<"Stopped", "Starting">>, <<"Starting", "Running">>,
      <<"Running", "Stopping">>, <<"Stopping", "Stopped">>,
      <<"Starting", "Failed">>, <<"Failed", "Starting">> }

\* a start whose spawn is rejected enters and leaves Starting within the
\* one step that runs service.py:78-98 and the handler
SpawnRejected ==
    /\ ev'.act = "start"
    /\ result'[ev'.by] = "ServiceStartError"
    /\ State \in {"Stopped", "Failed"} /\ State' = "Failed"

\* C1: with serialized calls the supervisor state changes only along
\* Stopped -> Starting -> Running -> Stopping -> Stopped, Failed is entered
\* only by a failed start (and left only by a new start), and no move
\* skips a state.
C1_StateOrder ==
    [][State' # State => (<<State, State'>> \in Moves \/ SpawnRejected)]_vars

\* ------------------------------------------------------------------ C2
\* the processes that are alive and have not been sent SIGKILL
Alive == {p \in Pids : proc[p] = "alive"}

ProbeEndsStart(c) == op[c] = "start" /\ pc[c] = "probe" /\ pc'[c] = "idle"

C4_FailedStopClearsHandle ==
    (JustEnded("stop") /\ result[ev.by] = "ServiceStopError")
        => (_process = None /\ ~_is_running)

C6_StartOnRunningIsNoop ==
    [][(ev'.act = "start" /\ State = "Running") =>
          /\ result'[ev'.by] = "returned" /\ pc'[ev'.by] = "idle"
          /\ UNCHANGED <<_process, _is_running, proc, sigs>>]_vars

C6_Witness ==
    /\ ev.act = "start" /\ JustEnded("start")
    /\ State = "Running" /\ result[ev.by] = "returned"
    /\ _process # None

\* ------------------------------------------------------------------ C7
\* C7: a stop called on a Stopped supervisor returns without error, sends
\* no signal and leaves the state and the absent handle as they were, so
\* repeating it changes nothing either.
C7_StopOnStoppedIsNoop ==
    [][(ev'.act = "stop" /\ State = "Stopped") =>
          /\ result'[ev'.by] = "returned" /\ pc'[ev'.by] = "idle"
          /\ State' = "Stopped"
          /\ UNCHANGED <<_process, _is_running, proc, sigs, failed>>]_vars

C7_Witness ==
    /\ ev.act = "stop" /\ JustEnded("stop")
    /\ State = "Stopped" /\ result[ev.by] = "returned"
    /\ \E p \in Pids : proc[p] = "gone" /\ SentTo(p, "SIGTERM", "stop") # {}

\* ------------------------------------------------------------------ C8
\* C8: a start that arrives while another caller's start is suspended
\* spawns nothing and does not replace the handle.
C8_StartWhileStartingIsNoop ==
    [][(ev'.act = "start" /\
        \E d \in Callers \ {ev'.by} : pc[d] \in StartPcs)
          => UNCHANGED <<_process, proc>>]_vars

\* ------------------------------------------------------------------ C9
\* C9: a stop whose graceful wait timed out has, when it ends, sent
\* SIGKILL exactly once to the process it stopped, returned, and left the
\* supervisor Stopped with the handle cleared.
C9_EscalationEndsStopped ==
    (JustEnded("stop") /\ timedOut[ev.by]) =>
        /\ result[ev.by] = "returned"
        /\ State = "Stopped" /\ _process = None
        /\ \E p \in Pids :
              /\ proc[p] = "gone"
              /\ Cardinality(SentTo(p, "SIGKILL", "stop")) = 1
              /\ sigs[p][Len(sigs[p])] = <<"SIGKILL", StopScope, "stop">>

\* ----------------------------------------------------------------- C10
\* C10: every signal of stop goes to the whole process group; a SIGKILL
\* of stop comes right after the SIGTERM of the same stop and only once
\* the graceful wait has timed out; a stop that found the process exited
\* within the timeout has sent no SIGKILL.
C10_SignalOrder ==
    /\ \A p \in Pids : \A i \in 1 .. Len(sigs[p]) :
          sigs[p][i][3] = "stop" =>
              /\ sigs[p][i][2] = "group"
              /\ sigs[p][i][1] = "SIGKILL" =>
                    (i > 1 /\ sigs[p][i - 1] = <<"SIGTERM", "group", "stop">>)
    /\ \A c \in Callers :
          /\ pc[c] \in StopPcs =>
                SentTo(_process, "SIGTERM", "stop") # {}
          /\ pc[c] \in {"term_wait", "kill"} =>
                SentTo(_process, "SIGKILL", "stop") = {}
          /\ pc[c] \in {"kill", "kill_wait"} => timedOut[c]

C10_GroupWideGracefulFirst ==
    /\ []C10_SignalOrder
    /\ [][\A c \in Callers :
            (pc[c] = "term_wait" /\ Exited(_process) /\ pc'[c] # "term_wait")
                => (sigs' = sigs /\ pc'[c] = "idle")]_vars

\* ----------------------------------------------------------------- C11
\* C11: once a scope (async with) has been left, after a normal end of the
\* body or after an error, the supervisor is not running and no process
\* it spawned is alive.
C11_ScopeLeavesNothing ==
    scope = "left" => (~_is_running /\ Alive = {})

\* ----------------------------------------------------------------- C12
AliveWorkers == {p \in Pids : workers[p] \in {"alive", "termed"}}

\* C12: whenever the supervisor holds no handle (after a stop that
\* returned, after the cleanup of a failed start), no process of a group it
\* supervised is alive: neither a spawned process nor a worker it forked.
C12_ReleasedGroupIsDead ==
    _process = None => (Alive = {} /\ AliveWorkers = {})

\* ----------------------------------------------------------------- C13
\* the call of health_check has ended
Ended == hc.pc = "done"

Last == hc.answers[Len(hc.answers)]

\* the attempts made so far that ended in r
Ending(r) == {i \in 1 .. Len(hc.answers) : hc.answers[i] = r}

\* the retry budget r of the call: the argument, or config.max_retries
Budget == IF hc.retries = << >> THEN max_retries ELSE hc.retries[1]

\* C13: a health_check whose attempts all ended in a connection failure
\* has made exactly r+1 attempts and slept exactly r times when it ends,
\* and it ends with ConnectionError.
C13_AllUnreachable ==
    (Ended /\ Ending("ClientError") = 1 .. Len(hc.answers)) =>
        /\ Len(hc.answers) = Budget + 1
        /\ hc.sleeps = Budget
        /\ hc.outcome = "ConnectionError"

C13_Witness ==
    /\ Ended /\ Ending("ClientError") = 1 .. Len(hc.answers)
    /\ hc.retries = <<MaxRetriesBound>> /\ max_retries # MaxRetriesBound

\* ----------------------------------------------------------------- C14
\* C14 as stated: health_check returns success at the first 200, and one
\* backoff sleep took place between each two consecutive attempts, k-1
\* sleeps for k attempts, whatever the earlier failures were.
C14_SleepBetweenAllAttempts ==
    hc.outcome = "True" =>
        /\ Ending("200") = {Len(hc.answers)}
        /\ hc.sleeps = Len(hc.answers) - 1

\* C14, amended: an attempt answered with 200 is the last one and ends the
\* call with success; the call has then slept once for every earlier
\* attempt that ended in a connection failure, and not at all after an
\* earlier attempt that was answered with a non-200 status.
C14_ReturnsAtFirst200 ==
    /\ \A i \in Ending("200") :
          i = Len(hc.answers) /\ Ended /\ hc.outcome = "True"
    /\ hc.outcome = "True" =>
          /\ Ending("200") = {Len(hc.answers)}
          /\ hc.sleeps = Cardinality(Ending("ClientError"))
          /\ Ending("ClientError") \cup Ending("non200")
                = 1 .. (Len(hc.answers) - 1)

C14_Witness ==
    /\ hc.outcome = "True"
    /\ Ending("ClientError") # {} /\ Ending("non200") # {}

\* ----------------------------------------------------------------- C15
\* C15: a health_check whose final attempt was answered with a non-200
\* status has made exactly r+1 attempts and ends with HealthCheckError,
\* whose message names r+1 attempts; every answer, non-200 or connection
\* failure, uses up one attempt of the budget.
C15_ExhaustedNamesAttempts ==
    /\ (Ended /\ Last = "non200") =>
          /\ Len(hc.answers) = Budget + 1
          /\ hc.outcome = "HealthCheckError"
          /\ hc.message = Budget + 1
    /\ Len(hc.answers) <= Budget + 1
    /\ hc.pc = "request" => hc.attempt = Len(hc.answers)

C15_Witness ==
    /\ Ended /\ Last = "non200"
    /\ Ending("ClientError") # {} /\ hc.message = MaxRetriesBound + 1

\* ----------------------------------------------------------------- C16
\* C16 as stated: health_check ends with ConnectionError only if every
\* attempt ended in a connection failure; a failed call in which some
\* attempt was answered with a non-200 status ends with HealthCheckError.
C16_ConnectionErrorMeansNeverReached ==
    /\ hc.outcome = "ConnectionError" =>
          Ending("ClientError") = 1 .. Len(hc.answers)
    /\ (Ended /\ hc.outcome # "True" /\ Ending("non200") # {}) =>
          hc.outcome = "HealthCheckError"

\* C16, amended: health_check ends with ConnectionError exactly when its
\* final, (r+1)-th attempt ended in a connection failure of the HTTP
\* client, whatever the earlier attempts ended in; when the final attempt
\* was answered with a non-200 status it ends with HealthCheckError.
C16_ConnectionErrorMeansLastFailed ==
    /\ hc.outcome = "ConnectionError" <=>
          (Ended /\ Last = "ClientError")
    /\ hc.outcome = "ConnectionError" => Len(hc.answers) = Budget + 1
    /\ (Ended /\ Last = "non200") => hc.outcome = "HealthCheckError"

C16_Witness ==
    hc.outcome = "ConnectionError" /\ Ending("non200") # {}

\* ----------------------------------------------------------------- C17
\* C17: an attempt of health_check that exceeds the timeout is treated as
\* a connection failure: when it is not the final attempt the backoff
\* sleep and another attempt follow it, and when it is the final attempt
\* the call ends with ConnectionError.
C17_TimeoutIsConnectionFailure ==
    \A i \in Ending("Timeout") :
        /\ i <= Budget =>
              /\ i = Len(hc.answers) => ~Ended
              /\ hc.sleeps + (IF hc.pc = "backoff" THEN 1 ELSE 0)
                    >= Cardinality(Ending("Timeout") \cap 1 .. i)
        /\ i = Budget + 1 => hc.outcome = "ConnectionError"

\* ----------------------------------------------------------------- C18
\* C18: get_models has made exactly one request when it ends; it returns
\* the parsed body when the answer was 200, and raises ConnectionError when
\* the request got a non-200 status, failed to connect or timed out.
C18_ModelsFailIsConnectionError ==
    gm.pc = "done" =>
        /\ gm.requests = 1
        /\ gm.answer = "200" => gm.outcome = "body"
        /\ gm.answer \in {"non200", "ClientError", "Timeout"} =>
              gm.outcome = "ConnectionError"

\* ----------------------------------------------------------------- C19
\* the three constraints on the values of a config
InRange(c) ==
    /\ 1 <= c.port.val /\ c.port.val <= 65535
    /\ c.timeout.val > 0
    /\ c.max_retries.val >= 0

AllInt(c) == IsInt(c.port) /\ IsInt(c.timeout) /\ IsInt(c.max_retries)

Called == config.outcome # "none"

\* C19 as stated: the construction of a config succeeds if and only if
\* 1 <= port <= 65535, timeout > 0 and max_retries >= 0.
C19_ConstructedIffInRange ==
    Called => (config.outcome = "constructed" <=> InRange(config))

\* C19, amended: the construction of a config succeeds if and only if
\* port, timeout and max_retries are integers with 1 <= port <= 65535,
\* timeout > 0 and max_retries >= 0; it fails with ValueError otherwise,
\* and every config that is read satisfies the three constraints.
C19_ConstructedIffIntInRange ==
    /\ Called =>
          (config.outcome = "constructed" <=>
              (AllInt(config) /\ InRange(config)))
    /\ \A c \in seen : AllInt(c) /\ InRange(c)

C19_Witness ==
    /\ config.outcome = "ValueError: Port" /\ config.port = PyInt(65536)
    /\ \E c \in seen : c.port = PyInt(65535)

\* ----------------------------------------------------------------- C20
\* C20: a query invokes at most one adapter: the ClickHouse adapter iff
\* the mode is clickhouse or both and a ClickHouse client is live;
\* otherwise the Postgres adapter iff a session factory is live; otherwise
\* none, and the result is the empty one. When the adapter invoked fails,
\* no other adapter is invoked.
C20_OneAdapterByModeAndHandle ==
    [][answered' # answered =>
         LET viaCh == db.exporter_type \in {"clickhouse", "both"}
                      /\ db._clickhouse_client
         IN  /\ answered'.name \in Queries
             /\ Len(answered'.invoked) <= 1
             /\ answered'.invoked = <<"clickhouse">> <=> viaCh
             /\ answered'.invoked = <<"postgres">> <=>
                   (~viaCh /\ db._postgres_session_factory)
             /\ answered'.invoked = << >> => answered'.result = "empty"
             /\ answered'.failed =>
                   (Len(answered'.invoked) = 1
                    /\ answered'.result = "empty")]_vars

C20_Witness ==
    /\ db.exporter_type = "both" /\ db._postgres_session_factory
    /\ answered.invoked = <<"clickhouse">>
    /\ answered.failed /\ answered.result = "empty"

\* ----------------------------------------------------------------- C21
\* C21: a query never raises; when the adapter it went to fails, it
\* returns the empty result of its kind, the one returned when there is no
\* adapter to go to: the zero snapshot, the empty history, total 0 with no
\* logs, the empty list of models.
C21_QueryNeverRaises ==
    [][answered' # answered =>
         /\ answered'.raised = "none"
         /\ answered'.failed =>
               /\ answered'.invoked # << >>
               /\ answered'.value = EmptyResult(answered'.name)]_vars

C21_Witness ==
    /\ answered.name = "get_logs" /\ answered.failed
    /\ answered.invoked = <<"postgres">>
    /\ answered.value = [total |-> 0, logs |-> << >>]

\* ----------------------------------------------------------------- C22
\* C22: while is_connected is false (never connected, connect raised,
\* after disconnect) every query goes to no adapter and returns the empty
\* result without failing.
C22_DisconnectedReachesNoBackend ==
    [][(answered' # answered /\ ~db._connected) =>
         /\ answered'.invoked = << >>
         /\ answered'.raised = "none"
         /\ answered'.value = EmptyResult(answered'.name)]_vars

\* ----------------------------------------------------------------- C23
\* C23: with no backend to go to, get_current_stats returns a snapshot
\* whose numeric fields are all zero and whose uptime is the time elapsed
\* since the manager was created (in hours: seconds over 3600); the same
\* snapshot is returned when the query of the adapter fails.
C23_EmptySnapshot ==
    [][(answered' # answered /\ answered'.name = "get_current_stats"
        /\ (answered'.invoked = << >> \/ answered'.failed)) =>
         LET v == answered'.value IN
         /\ v.tokens_total = 0 /\ v.tokens_per_sec = 0
         /\ v.error_count = 0 /\ v.request_count = 0
         /\ v.avg_latency_ms = 0 /\ v.models_available = 0
         /\ v.uptime_hours = <<clock - db._start_time, 3600>>]_vars

C23_Witness ==
    /\ answered.name = "get_current_stats" /\ answered.invoked = << >>
    /\ answered.value.uptime_hours = <<1, 3600>>
    /\ db._start_time = 1 /\ clock = 2

\* ----------------------------------------------------------------- C24
\* the answer held is one of get_history
Held == hist.adapter # "none"

\* C24: get_history returns at most range / granularity buckets (6 for
\* range 6h and granularity 1h), their timestamps are multiples of the
\* granularity width, distinct and strictly newest-first, on both adapters.
C24_BucketsBounded ==
    Held =>
        LET w == GranularityMinutes(hist.granularity) * 60
            n == (RangeHours(hist.time_range) * 3600) \div w
        IN  /\ Len(hist.data) <= n
            /\ \A i \in 1 .. Len(hist.data) :
                  /\ hist.data[i].timestamp % w = 0
                  /\ i > 1 =>
                        hist.data[i].timestamp < hist.data[i - 1].timestamp

\* ----------------------------------------------------------------- C25
\* the rows of the range whose timestamp falls in the bucket of width w
\* seconds that starts at t
RowsOfBucket(h, w, t) ==
    {r \in ollama_metrics :
        /\ r.timestamp >= clock - h * 3600
        /\ r.timestamp - (r.timestamp % w) = t}

\* C25: get_history maps range 1h/6h/24h to 1/6/24 hours and anything else
\* to 1, granularity 1m/5m/1h to 1/5/60 minutes and anything else to 1,
\* groups the rows of the range by their timestamp truncated to that width
\* and returns per bucket the token sum, the average latency, the request
\* count over the width in minutes and the error sum, on both adapters.
C25_HistoryAggregates ==
    Held =>
        LET h == IF hist.time_range = "6h" THEN 6
                 ELSE IF hist.time_range = "24h" THEN 24 ELSE 1
            m == IF hist.granularity = "5m" THEN 5
                 ELSE IF hist.granularity = "1h" THEN 60 ELSE 1
            starts == {r.timestamp - (r.timestamp % (m * 60)) :
                          r \in {x \in ollama_metrics :
                                    x.timestamp >= clock - h * 3600}}
        IN  /\ {hist.data[i].timestamp : i \in 1 .. Len(hist.data)} = starts
            /\ Len(hist.data) = Cardinality(starts)
            /\ \A i \in 1 .. Len(hist.data) :
                  LET rs == RowsOfBucket(h, m * 60, hist.data[i].timestamp)
                      lat == {r \in rs :
                                 r.metric_name = "ollama_request_latency_ms"}
                  IN  /\ hist.data[i].tokens_total = SumValues(
                            {r \in rs : r.metric_name =
                                "ollama_tokens_generated_total"})
                      /\ hist.data[i].error_count = SumValues(
                            {r \in rs :
                                r.metric_name = "ollama_errors_total"})
                      /\ hist.data[i].throughput =
                            <<Cardinality({r \in rs : r.metric_name =
                                "ollama_requests_total"}), m>>
                      /\ lat # {} => hist.data[i].latency_ms =
                            <<SumValues(lat), Cardinality(lat)>>

\* ----------------------------------------------------------------- C26
\* C26: on the same stored rows, at the same time and with the same
\* arguments, the ClickHouse adapter and the relational adapter return the
\* same history.
C26_AdaptersAgree ==
    Held =>
        /\ hist.data =
              GetHistoryBy("clickhouse", hist.time_range, hist.granularity)
        /\ hist.data =
              GetHistoryBy("postgres", hist.time_range, hist.granularity)

\* ----------------------------------------------------------------- C27
\* the stored entries that match the filters given to the call of get_logs
\* under way; a filter left out (None or empty) matches every entry
Matching ==
    {r \in request_logs :
        /\ logs.status \notin {"None", ""} => r.status = logs.status
        /\ logs.model \notin {"None", ""} => r.model = logs.model}

\* the entry e of a page is the stored row r
IsEntryOf(e, r) ==
    /\ e.request_id = r.request_id
    /\ e.timestamp = r.timestamp
    /\ e.model = r.model
    /\ e.status = r.status
    /\ e.tokens = r.tokens_generated
    /\ e.latency = r.latency_ms

\* the page p is the entries offset .. offset + limit - 1 of a listing of
\* the matching entries newest-first: it has the length of that slice, its
\* entries are distinct matching entries, newest-first, and entry i can
\* stand at position offset + i of the listing (fewer than offset + i
\* matching entries are newer, at least offset + i are not older)
IsPageOf(p, limit, offset) ==
    LET n == Cardinality(Matching)
        len == IF n <= offset THEN 0
               ELSE IF n - offset < limit THEN n - offset ELSE limit
    IN  /\ Len(p) = len
        /\ \A i \in 1 .. Len(p) :
              /\ \E r \in Matching : IsEntryOf(p[i], r)
              /\ \A j \in 1 .. Len(p) :
                    /\ i # j => p[i].request_id # p[j].request_id
                    /\ i < j => p[i].timestamp >= p[j].timestamp
              /\ Cardinality({r \in Matching :
                     r.timestamp > p[i].timestamp}) < offset + i
              /\ Cardinality({r \in Matching :
                     r.timestamp >= p[i].timestamp}) >= offset + i

\* C27: get_logs returns as total the number of stored entries that match
\* the filters, whatever limit and offset, and as page the entries
\* offset .. offset + limit - 1 of the matching entries newest-first: at
\* most limit entries, none of which fails a filter.
C27_LogsPage ==
    /\ logs.pc \in {"counted", "done"} =>
          logs.total =
              Cardinality({r \in Matching : r.request_id <= logs.counted})
    /\ logs.pc = "done" =>
          /\ IsPageOf(logs.logs, logs.limit, logs.offset)
          /\ Len(logs.logs) <= logs.limit
          /\ \A i \in 1 .. Len(logs.logs) :
                /\ logs.status \notin {"None", ""} =>
                      logs.logs[i].status = logs.status
                /\ logs.model \notin {"None", ""} =>
                      logs.logs[i].model = logs.model

\* a page past the first entry of a filtered listing has been returned
C27_Witness ==
    /\ logs.pc = "done"
    /\ logs.model = "llama"
    /\ logs.status = "error"
    /\ logs.offset = 1
    /\ logs.limit = 1
    /\ logs.total = 2
    /\ Cardinality(request_logs) = 3
    /\ Len(logs.logs) = 1
    /\ logs.logs[1].request_id = 1

\* ----------------------------------------------------------------- C28
RECURSIVE SumRequests(_)
SumRequests(rows) ==
    IF rows = << >> THEN 0
    ELSE Head(rows).requests_count + SumRequests(Tail(rows))

\* C28: get_model_stats returns exactly one row per model name of the
\* request log, with the number of its entries, their token sum, the number
\* of them with status error and their latest timestamp; the rows are
\* ordered by request count descending and the counts sum to the number of
\* logged requests.
C28_ModelStats ==
    model_stats.held =>
        LET d == model_stats.data IN
        /\ {d[i].model : i \in 1 .. Len(d)} =
              {r.model : r \in request_logs}
        /\ Len(d) = Cardinality({r.model : r \in request_logs})
        /\ \A i \in 1 .. Len(d) :
              LET rs == {r \in request_logs : r.model = d[i].model} IN
              /\ d[i].requests_count = Cardinality(rs)
              /\ d[i].tokens_generated = SumTokens(rs)
              /\ d[i].error_count =
                    Cardinality({r \in rs : r.status = "error"})
              /\ \E r \in rs : d[i].last_used = r.timestamp
              /\ \A r \in rs : r.timestamp <= d[i].last_used
        /\ \A i, j \in 1 .. Len(d) :
              i < j => d[i].requests_count >= d[j].requests_count
        /\ SumRequests(d) = Cardinality(request_logs)

\* two models with different request counts have been reported
C28_Witness ==
    /\ model_stats.held
    /\ Len(model_stats.data) = 2
    /\ model_stats.data[1].requests_count = 2
    /\ model_stats.data[1].error_count = 1
    /\ model_stats.data[1].tokens_generated = 3
    /\ model_stats.data[2].requests_count = 1
    /\ model_stats.data[2].model = "phi"

\* ----------------------------------------------------------------- C29
\* C29: when connecting fails at startup the application still starts,
\* /api/health reports degraded, every later query returns the empty
\* result, and the shutdown completes.
C29_StartupFailureTolerated ==
    app.startup = "failed" =>
        /\ app.phase \in {"serving", "stopped"}
        /\ app.health \in {"none", "degraded"}
        /\ answered.name # "none" => answered.result = "empty"
        /\ app.phase = "serving" => ENABLED LifespanShutdown

\* ----------------------------------------------------------------- C30
\* what health_check with at most n retries ends with when it runs alone
\* and its requests end in the answers rs, the first of them being
\* attempt att
RECURSIVE Alone(_, _, _)
Alone(rs, att, n) ==
    IF rs = << >> THEN "none"
    ELSE LET o == AttemptOutcome(Head(rs), att, n) IN
         IF o.pc = "done" THEN o.outcome
         ELSE Alone(Tail(rs), att + 1, n)

\* what the call c made returns when it runs alone on the same answers
ReturnsAlone(k) ==
    IF k.op = "health_check"
      THEN Alone(k.answers, 0, MaxRetriesOf(k.retries))
    ELSE IF k.adapter = "none" \/ k.answers # <<"rows">> THEN "empty"
    ELSE "rows"

\* C30: every step of a health_check call or of a query call, however the
\* calls of several callers interleave, leaves the running flag, the
\* process handle, the backend handles and the connected flag as they are,
\* and a call that ends returns what it returns when it runs alone on the
\* same backend answers.
C30_CallsDoNotInterfere ==
    [][ (\E c \in Callers : CallStep(c)) =>
          /\ _is_running' = _is_running
          /\ _process' = _process
          /\ db' = db
          /\ \A c \in Callers :
                (calls[c].pc # "done" /\ calls'[c].pc = "done") =>
                    /\ calls'[c].outcome = ReturnsAlone(calls'[c])
                    /\ calls'[c].op \in Queries =>
                          calls'[c].adapter = Dispatch ]_vars

\* a health_check that retried has ended while a query of the other caller
\* was waiting for its backend
C30_Witness ==
    /\ calls["a"].op = "health_check"
    /\ calls["a"].pc = "done"
    /\ calls["a"].answers = <<"ClientError", "200">>
    /\ calls["a"].outcome = "True"
    /\ calls["b"].op = "get_logs"
    /\ calls["b"].pc = "request"
    /\ calls["b"].adapter = "postgres"
    /\ db._connected

\* ----------------------------------------------------------------- C31
\* C31: health_check returns True if the service is healthy and False
\* otherwise: a call none of whose requests was answered 200 ends by
\* returning False.
C31_UnhealthyReturnsFalse ==
    (hc.pc = "done" /\ \A i \in 1 .. Len(hc.answers) : hc.answers[i] # "200")
        => hc.outcome = "False"

\* ----------------------------------------------------------------- C32
\* C32: an attempt of health_check that fails otherwise than by a non-200
\* answer or a connection-level failure ends the call at once with
\* HealthCheckError: it is the last attempt, and no sleep follows it.
C32_UnexpectedFailsAtOnce ==
    \A i \in 1 .. Len(hc.answers) :
        hc.answers[i] = "Other" =>
            /\ i = Len(hc.answers)
            /\ hc.pc = "done"
            /\ hc.outcome = "HealthCheckError"
            /\ hc.sleeps = Cardinality({j \in 1 .. i - 1 :
                                          hc.answers[j] = "ClientError"})

\* an unexpected failure has ended a call that had retries left
C32_Witness ==
    /\ hc.pc = "done"
    /\ hc.max_retries = 2
    /\ hc.answers = <<"ClientError", "Other">>
    /\ hc.outcome = "HealthCheckError"
    /\ hc.sleeps = 1

\* ----------------------------------------------------------------- C33
\* C33: after a start that was cancelled in the startup delay or in the
\* health probe, the process it spawned is not left alive and the handle
\* is cleared: the supervisor never holds a live process while it reports
\* not running.
C33_CancelledStartCleansUp ==
    \A c \in Callers :
        (pc[c] = "idle" /\ result[c] = "CancelledError") =>
            /\ _process = None
            /\ \A p \in Pids : proc[p] # "alive"

\* ----------------------------------------------------------------- C34
\* C34: is_running becomes true only at the end of a start that spawned a
\* process and found it alive after the startup delay, and becomes false
\* only when a stop completes without error; no other step changes it:
\* not the process exiting, not a health_check or get_models call, not a
\* no-op start or stop, not a cancellation.
C34_RunningFlagChanges ==
    [][ /\ (~_is_running /\ _is_running') =>
              \E c \in Callers :
                  /\ op[c] = "start"
                  /\ pc[c] = "probe"
                  /\ pc'[c] = "idle"
                  /\ result'[c] = "returned"
                  /\ _process # None
                  /\ _process' = _process
        /\ (_is_running /\ ~_is_running') =>
              \E c \in Callers :
                  /\ op[c] = "stop"
                  /\ pc[c] \in StopPcs
                  /\ pc'[c] = "idle"
                  /\ result'[c] = "returned" ]_vars

\* a direct health_check has raised and the process has exited on its own
\* while the service is still reported running
C34_Witness ==
    /\ _is_running
    /\ _process # None
    /\ proc[_process] = "exited"
    /\ calls[Owner].pc = "done"
    /\ calls[Owner].outcome = "ConnectionError"
    /\ \A c \in Callers : pc[c] = "idle"

\* ----------------------------------------------------------------- C35
\* C35: connect is all-or-nothing: when the connect of the startup has
\* raised, is_connected is false, the manager holds no ClickHouse client,
\* no Postgres engine and no session factory, and no later query is
\* dispatched to an adapter.
C35_ConnectAllOrNothing ==
    (app.startup = "failed" /\ app.phase = "serving") =>
        /\ ~db._connected
        /\ ~db._clickhouse_client
        /\ ~db._postgres_engine
        /\ ~db._postgres_session_factory
        /\ answered.invoked = << >>

\* ----------------------------------------------------------------- C36
\* the manager d holds a backend handle
HoldsHandle(d) ==
    d._clickhouse_client \/ d._postgres_engine \/ d._postgres_session_factory

\* C36: disconnect never raises and ends with is_connected false and every
\* handle cleared, even when closing a backend fails; a failure closing
\* ClickHouse does not prevent closing Postgres; disconnect on a manager
\* that holds nothing and is not connected changes nothing.
C36_DisconnectClears ==
    [][ Disconnect =>
          /\ ~closed'.raised
          /\ ~db'._connected
          /\ ~HoldsHandle(db')
          /\ db._postgres_engine => closed'.postgres # "none"
          /\ (~HoldsHandle(db) /\ ~db._connected) =>
                /\ db' = db
                /\ closed'.clickhouse = "none"
                /\ closed'.postgres = "none" ]_vars

\* closing ClickHouse has failed, Postgres has been closed all the same
C36_Witness ==
    /\ closed.called
    /\ closed.clickhouse = "Exception"
    /\ closed.postgres = "closed"
    /\ ~db._connected
    /\ ~HoldsHandle(db)
    /\ db.exporter_type = "both"

\* ----------------------------------------------------------------- C37
\* C37: after any sequence of init_database, get_database_manager and
\* close_database, every manager that holds a backend handle is the one
\* the global _db_manager refers to; after close_database, none holds one.
C37_OnlyGlobalHoldsHandles ==
    \A i \in 1 .. Len(managers) :
        HoldsHandle(managers[i]) => i = _db_manager

\* ----------------------------------------------------------------- C38
\* C38: in every router state, a manager that says it is connected holds
\* at least one backend handle, and holds the handle of every backend its
\* mode asks for.
C38_ConnectedHoldsHandles ==
    db._connected =>
        /\ HoldsHandle(db)
        /\ db.exporter_type \in {"clickhouse", "both"} =>
               db._clickhouse_client
        /\ db.exporter_type \in {"postgres", "both"} =>
               db._postgres_engine /\ db._postgres_session_factory

====
